---- MODULE Spec2Model ----
(***************************************************************************)
(* Barkr (backend/app.py): the swipe / song-gate / matches workflow over   *)
(* the sqlite tables users, dogs and likes.                                *)
(*                                                                         *)
(* Text values that the code trims, lowercases or looks up (usernames,     *)
(* favourite artists, gate answers) are sequences of one-character         *)
(* strings, so that strip() and lower() are computed and not assumed.      *)
(* Under Spec every request is one atomic step; SpecConcurrent lets the    *)
(* statements of like swipes of different requests interleave.             *)
(* The session of a request is its first parameter: the id of a registered *)
(* user (login and register put it there) or NoUser; login, logout, index, *)
(* me and uploads read or clear the session only and are not modelled.     *)
(* Requests carry no dog_photo part; the dog's display fields other than   *)
(* favorite_artist and created_at are opaque to every handler modelled.    *)
(* The lists of matches() are modelled as the sets of dog ids they hold.   *)
(***************************************************************************)
EXTENDS Integers, Sequences, FiniteSets, TLC

\* ---------------------------------------------------------------- bounds
MaxUsers == 3   \* registrations that succeed
MaxTime  == 1   \* CURRENT_TIMESTAMP takes the values 0..MaxTime
MaxSteps == 5   \* requests handled in one behaviour

\* ------------------------------------------------------------ text values
SpaceChars == {" ", "\t", "\n"}

UpperAlpha == <<"A","B","C","D","E","F","G","H","I","J","K","L","M",
                "N","O","P","Q","R","S","T","U","V","W","X","Y","Z">>
LowerAlpha == <<"a","b","c","d","e","f","g","h","i","j","k","l","m",
                "n","o","p","q","r","s","t","u","v","w","x","y","z">>

\* str.lower() on one character
LowerChar(c) ==
    IF \E i \in 1..26 : UpperAlpha[i] = c
    THEN LowerAlpha[CHOOSE i \in 1..26 : UpperAlpha[i] = c]
    ELSE c

\* str.lower()
Lower(s) == [i \in 1..Len(s) |-> LowerChar(s[i])]

\* str.strip(): drop leading and trailing whitespace
Strip(s) ==
    LET keep == {i \in 1..Len(s) : s[i] \notin SpaceChars}
    IN  IF keep = {} THEN <<>>
        ELSE LET lo == CHOOSE i \in keep : \A j \in keep : i <= j
                 hi == CHOOSE i \in keep : \A j \in keep : j <= i
             IN  SubSeq(s, lo, hi)

\* artist names (keys of ARTIST_SONGS)
S_Drake  == <<"D", "r", "a", "k", "e">>
S_Miley  == <<"M", "i", "l", "e", "y", " ", "C", "y", "r", "u", "s">>
S_Bruno  == <<"B", "r", "u", "n", "o", " ", "M", "a", "r", "s">>
S_Weeknd == <<"T", "h", "e", " ", "W", "e", "e", "k", "n", "d">>
S_Justin == <<"J", "u", "s", "t", "i", "n", " ", "T", "i", "m", "b", "e", "r", "l", "a", "k", "e">>
S_Dua    == <<"D", "u", "a", " ", "L", "i", "p", "a">>
S_Ed     == <<"E", "d", " ", "S", "h", "e", "e", "r", "a", "n">>
\* an artist a registration form can send that the catalog does not have
S_Taylor == <<"T", "a", "y", "l", "o", "r", " ", "S", "w", "i", "f", "t">>

\* artist -> list of {key, answers}   (title and file are display data)
ARTIST_SONGS ==
    (S_Drake :> << [key |-> "drake_godsplan",
                    answers |-> << <<"g", "o", "d", "'", "s", " ", "p", "l", "a", "n">>,
                                   <<"g", "o", "d", "s", " ", "p", "l", "a", "n">> >>] >>)
 @@ (S_Miley :> << [key |-> "miley_flowers",
                    answers |-> << <<"F", "l", "o", "w", "e", "r", "s">>,
                                   <<"f", "l", "o", "w", "e", "r", "s">> >>] >>)
 @@ (S_Bruno :> << [key |-> "bruno_uptownf",
                    answers |-> << <<"U", "p", "t", "o", "w", "n", " ", "F", "u", "n", "k">>,
                                   <<"u", "p", "t", "o", "w", "n", " ", "f", "u", "n", "k">> >>] >>)
 @@ (S_Weeknd :> << [key |-> "weeknd_blinding_lights",
                    answers |-> << <<"b", "l", "i", "n", "d", "i", "n", "g", " ", "l", "i", "g", "h", "t", "s">> >>] >>)
 @@ (S_Justin :> << [key |-> "justin_cstf",
                    answers |-> << <<"C", "a", "n", "t", " ", "S", "t", "o", "p", " ", "T", "h", "e", " ", "F", "e", "e", "l", "i", "n", "g">>,
                                   <<"C", "a", "n", "'", "t", " ", "S", "t", "o", "p", " ", "T", "h", "e", " ", "F", "e", "e", "l", "i", "n", "g">>,
                                   <<"c", "a", "n", "t", " ", "s", "t", "o", "p", " ", "t", "h", "e", " ", "f", "e", "e", "l", "i", "n", "g">> >>] >>)
 @@ (S_Dua :> << [key |-> "dua_levitating",
                    answers |-> << <<"l", "e", "v", "i", "t", "a", "t", "i", "n", "g">> >>] >>)
 @@ (S_Ed :> << [key |-> "ed_shape_of_you",
                    answers |-> << <<"s", "h", "a", "p", "e", " ", "o", "f", " ", "y", "o", "u">> >>] >>)

\* ARTIST_SONGS.get(artist, ARTIST_SONGS["Drake"]): a default challenge
Choices_Default(artist) ==
    IF artist \in DOMAIN ARTIST_SONGS THEN ARTIST_SONGS[artist] ELSE ARTIST_SONGS[S_Drake]

\* every artist's challenges for an artist of the catalog
Choices_AllSongs(artist) ==
    IF artist \in DOMAIN ARTIST_SONGS
    THEN ARTIST_SONGS[S_Drake] \o ARTIST_SONGS[S_Miley] \o ARTIST_SONGS[artist]
    ELSE <<>>

\* ARTIST_SONGS.get(artist, [])
Choices(artist) ==
    IF artist \in DOMAIN ARTIST_SONGS THEN ARTIST_SONGS[artist] ELSE <<>>

\* the set of keys of a list of challenges
KeysOf(choices) == {choices[i].key : i \in 1..Len(choices)}

\* next((c for c in choices if c["key"] == key), None); callers test
\* key \in KeysOf(choices) first
SnippetOf(choices, key) ==
    choices[CHOOSE i \in 1..Len(choices) :
               /\ choices[i].key = key
               /\ \A j \in 1..Len(choices) : choices[j].key = key => i <= j]

\* Accepts with the membership test taken on a string: an accepted answer
\* that starts the guess is enough
Accepts_Prefix(snippet, answer) ==
    \E i \in 1..Len(snippet.answers) :
        LET guess == Lower(Strip(answer))
            a     == Lower(snippet.answers[i])
        IN  Len(a) <= Len(guess) /\ SubSeq(guess, 1, Len(a)) = a

\* guess = answer.lower(), without strip()
Accepts_NoStrip(snippet, answer) ==
    \E i \in 1..Len(snippet.answers) :
        Lower(answer) = Lower(snippet.answers[i])

\* `if guess or guess in normalized`: any answer that is not blank
Accepts_NotBlank(snippet, answer) ==
    \/ Lower(Strip(answer)) # <<>>
    \/ \E i \in 1..Len(snippet.answers) :
          Lower(Strip(answer)) = Lower(snippet.answers[i])

\* guess = answer.strip().lower(); guess in [a.lower() for a in answers]
Accepts(snippet, answer) ==
    \E i \in 1..Len(snippet.answers) :
        Lower(Strip(answer)) = Lower(snippet.answers[i])


\* ------------------------------------------------------------------ state
VARIABLES
    users,   \* table users: row id -> [username]
    dogs,    \* table dogs:  row id -> [user_id, favorite_artist, created_at]
    likes,   \* table likes: set of rows [user_id, target_dog_id, value, created_at]
    now,     \* CURRENT_TIMESTAMP of the database
    req,     \* the request handled last
    resp,    \* the response it got
    steps,   \* number of requests handled
    follows, \* history: how the request handled last relates to the one before
    swiped,  \* history: the like and dislike swipes handled so far,
             \* [user, dog_id, routed]; routed = sent on to the song gate
    gated,   \* history: the <<user, dog_id>> whose like the gate finalized
    inflight \* like swipes between their SELECTs and their INSERT,
             \* [user, dog_id] (empty where a request is one step)

vars == <<users, dogs, likes, now, req, resp, steps, follows, swiped, gated,
          inflight>>

NoUser  == 0    \* "user_id" not in session
NoDog   == 0    \* fetchone() returned None / form field dog_id absent
NoKey   == ""   \* request.args.get("key") is None or empty
NoText  == <<>> \* an absent or empty form field

UserIds == 1..Len(users)
DogIds  == 1..Len(dogs)

Request(op, user, dog_id, action, key, method, answer) ==
    [op |-> op, user |-> user, dog_id |-> dog_id, action |-> action,
     key |-> key, method |-> method, answer |-> answer]

Response(kind, page, dog_id, key, flash) ==
    [kind |-> kind, page |-> page, dog_id |-> dog_id, key |-> key,
     flash |-> flash, pending |-> {}, confirmed |-> {}]

Redirect(page) == Response("redirect", page, NoDog, NoKey, "")
RedirectFlash(page, flash) == Response("redirect", page, NoDog, NoKey, flash)
RenderFlash(page, flash) == Response("render", page, NoDog, NoKey, flash)

\* login_required: no user_id in the session
ToLogin == Redirect("login")

\* ---------------------------------------------------------- store helpers
\* Upsert that takes a second swipe of the same pair back (a toggle)
Upsert_Toggle(L, u, d, v, t) ==
    IF \E r \in L : r.user_id = u /\ r.target_dog_id = d /\ r.value = v
    THEN {r \in L : ~(r.user_id = u /\ r.target_dog_id = d)}
    ELSE {r \in L : ~(r.user_id = u /\ r.target_dog_id = d)}
         \cup {[user_id |-> u, target_dog_id |-> d, value |-> v, created_at |-> t]}

\* Upsert without the conflict clause on a table without the primary key
Upsert_Append(L, u, d, v, t) ==
    L \cup {[user_id |-> u, target_dog_id |-> d, value |-> v, created_at |-> t]}

\* INSERT INTO likes ... ON CONFLICT(user_id, target_dog_id)
\* DO UPDATE SET value = v, created_at = CURRENT_TIMESTAMP
Upsert(L, u, d, v, t) ==
    {r \in L : ~(r.user_id = u /\ r.target_dog_id = d)}
    \cup {[user_id |-> u, target_dog_id |-> d, value |-> v, created_at |-> t]}

\* SELECT id FROM dogs without the WHERE clause: the first dog there is
my_dog_id_First(u) ==
    IF DogIds # {} THEN 1 ELSE NoDog

\* my_dog_id(): SELECT id FROM dogs WHERE user_id = ?  (None when no row)
my_dog_id(u) ==
    IF \E i \in DogIds : dogs[i].user_id = u
    THEN CHOOSE i \in DogIds :
            /\ dogs[i].user_id = u
            /\ \A j \in DogIds : dogs[j].user_id = u => i <= j
    ELSE NoDog

\* MutualLike with the two query parameters in the other order
MutualLike_Swapped(target_user_id, mine) ==
    \E r \in likes : /\ r.user_id = mine
                     /\ r.target_dog_id = target_user_id
                     /\ r.value = 1

\* MutualLike without "AND value = 1"
MutualLike_AnyValue(target_user_id, mine) ==
    \E r \in likes : /\ r.user_id = target_user_id
                     /\ r.target_dog_id = mine

\* SELECT 1 FROM likes WHERE user_id = ? AND target_dog_id = ? AND value = 1
MutualLike(target_user_id, mine) ==
    \E r \in likes : /\ r.user_id = target_user_id
                     /\ r.target_dog_id = mine
                     /\ r.value = 1

\* the WHERE clause of discover(): dogs of other users the viewer has no
\* likes row for
FeedCandidates(viewer) ==
    {d \in DogIds :
        /\ dogs[d].user_id \in UserIds
        /\ dogs[d].user_id # viewer
        /\ d \notin {r.target_dog_id : r \in {x \in likes : x.user_id = viewer}}}

\* NextCards with ORDER BY d.created_at ASC
NextCards_Oldest(viewer) ==
    {d \in FeedCandidates(viewer) :
        \A e \in FeedCandidates(viewer) : dogs[d].created_at <= dogs[e].created_at}

\* ORDER BY d.created_at DESC LIMIT 1: the rows that can come first (rows
\* with equal created_at come in an order sqlite does not fix)
NextCards(viewer) ==
    {d \in FeedCandidates(viewer) :
        \A e \in FeedCandidates(viewer) : dogs[e].created_at <= dogs[d].created_at}

\* PendingMatches without "AND l_me.value = 1" in the LEFT JOIN
PendingMatches_AnyMine(me, mydog) ==
    {d \in DogIds :
        /\ dogs[d].user_id \in UserIds
        /\ \E l_other \in likes : /\ l_other.user_id = dogs[d].user_id
                                  /\ l_other.target_dog_id = mydog
                                  /\ l_other.value = 1
        /\ dogs[d].user_id # me
        /\ ~\E l_me \in likes : /\ l_me.user_id = me
                                /\ l_me.target_dog_id = d}

\* matches(), query 1 (pending): ids of the dogs d selected
PendingMatches(me, mydog) ==
    {d \in DogIds :
        /\ dogs[d].user_id \in UserIds
        /\ \E l_other \in likes : /\ l_other.user_id = dogs[d].user_id
                                  /\ l_other.target_dog_id = mydog
                                  /\ l_other.value = 1
        /\ dogs[d].user_id # me
        /\ ~\E l_me \in likes : /\ l_me.user_id = me
                                /\ l_me.target_dog_id = d
                                /\ l_me.value = 1}

\* ConfirmedMatches without "AND l2.value = 1"
ConfirmedMatches_AnyTheirs(me, mydog) ==
    {d \in DogIds :
        /\ dogs[d].user_id \in UserIds
        /\ \E l1 \in likes : /\ l1.target_dog_id = d
                             /\ l1.user_id = me
                             /\ l1.value = 1
        /\ \E l2 \in likes : /\ l2.user_id = dogs[d].user_id
                             /\ l2.target_dog_id = mydog
        /\ dogs[d].user_id # me}

\* ConfirmedMatches without "AND l1.value = 1"
ConfirmedMatches_AnyMine(me, mydog) ==
    {d \in DogIds :
        /\ dogs[d].user_id \in UserIds
        /\ \E l1 \in likes : /\ l1.target_dog_id = d
                             /\ l1.user_id = me
        /\ \E l2 \in likes : /\ l2.user_id = dogs[d].user_id
                             /\ l2.target_dog_id = mydog
                             /\ l2.value = 1
        /\ dogs[d].user_id # me}

\* query 2 without its last line, `AND d.user_id != ?`
ConfirmedMatches_Self(me, mydog) ==
    {d \in DogIds :
        /\ dogs[d].user_id \in UserIds
        /\ \E l1 \in likes : /\ l1.target_dog_id = d
                             /\ l1.user_id = me
                             /\ l1.value = 1
        /\ \E l2 \in likes : /\ l2.user_id = dogs[d].user_id
                             /\ l2.target_dog_id = mydog
                             /\ l2.value = 1}

\* matches(), query 2 (confirmed): ids of the dogs d selected
ConfirmedMatches(me, mydog) ==
    {d \in DogIds :
        /\ dogs[d].user_id \in UserIds
        /\ \E l1 \in likes : /\ l1.target_dog_id = d
                             /\ l1.user_id = me
                             /\ l1.value = 1
        /\ \E l2 \in likes : /\ l2.user_id = dogs[d].user_id
                             /\ l2.target_dog_id = mydog
                             /\ l2.value = 1
        /\ dogs[d].user_id # me}

\* ------------------------------------------------------------------- init
\* What bootstrap() can find in the database file: no tables (it creates
\* them empty), or the tables of an earlier revision of the app, whose dogs
\* table had no favorite_artist column (ALTER TABLE adds it, NULL in every
\* row; NULL and "" are both NoText, as in `favorite_artist or ""`) and
\* whose users could be without a dog (swipe and matches still ask for it).
LegacyDatabases ==
    { [users |-> <<>>, dogs |-> <<>>],
      [users |-> <<[username |-> <<"u">>]>>,
       dogs  |-> <<[user_id |-> 1, favorite_artist |-> NoText, created_at |-> 0]>>],
      [users |-> <<[username |-> <<"u">>]>>, dogs |-> <<>>] }

\* the state after bootstrap(); the registrations that made the rows found
\* count as requests handled
Init ==
    /\ \E db \in LegacyDatabases : users = db.users /\ dogs = db.dogs
    /\ likes = {}
    /\ now = 0
    /\ req = Request("none", NoUser, NoDog, "", NoKey, "", NoText)
    /\ resp = Redirect("none")
    /\ steps = Len(users)
    /\ follows = "other"
    /\ swiped = {}
    /\ gated = {}
    /\ inflight = {}

\* the database clock moves on between requests
Tick ==
    /\ now < MaxTime
    /\ now' = now + 1
    /\ UNCHANGED <<users, dogs, likes, req, resp, steps, follows, swiped, gated,
                   inflight>>


\* ----------------------------------------------------------------- inputs
D_Rex == <<"R", "e", "x">>

\* a username no user has: "u", "uu", "uuu", ...
FreshName == [i \in 1..(Len(users) + 1) |-> "u"]

\* the usernames a registration form is sent with: a new one and a taken
\* one, each inside whitespace
UsernameInputs ==
    {<<" ">> \o FreshName} \cup {users[i].username \o <<" ">> : i \in UserIds \cap {1}}

\* (username, password, confirmation, dog_name, favorite_artist) of a
\* registration form: complete forms, and forms that fail each validation
RegisterInputs ==
    (UsernameInputs \X {"pw"} \X {"pw"} \X {D_Rex}
        \X {<<" ">> \o S_Drake \o <<" ">>, S_Taylor})
    \cup { <<<<" ">>, "pw", "pw", D_Rex, S_Drake>>,
           <<FreshName, "pw", "", D_Rex, S_Drake>>,
           <<FreshName, "pw", "px", D_Rex, S_Drake>>,
           <<FreshName, "pw", "pw", <<" ">>, S_Drake>>,
           <<FreshName, "pw", "pw", D_Rex, NoText>> }

\* the ids of the dogs there are, and one id no dog has yet
DogIdInputs    == 1..(Len(dogs) + 1)

\* (dog_id, action) of a swipe form: every like and dislike, a form without
\* dog_id and a form with an action that is neither
SwipeInputs ==
    (DogIdInputs \X {"like", "dislike"})
    \cup {<<NoDog, "like">>, <<1, "superlike">>}

A_GodsPlan  == <<" ", "G", "o", "d", "s", " ", "P", "l", "a", "n", " ">>
A_GodsPlans == <<"g", "o", "d", "s", " ", "p", "l", "a", "n", "s">>
A_Flowers   == <<"f", "l", "o", "w", "e", "r", "s">>

\* (key, method, answer) of a gate request
GateInputs ==
    { <<NoKey, "GET", NoText>>,
      <<"drake_godsplan", "GET", NoText>>,
      <<"drake_godsplan", "POST", A_GodsPlan>>,
      <<"drake_godsplan", "POST", A_GodsPlans>>,
      <<"miley_flowers", "POST", A_Flowers>> }

\* "same": the request repeats the one before; "flip": it is a like swipe
\* right after a dislike swipe of the same user on the same dog; "retry": it
\* posts another answer to the gate the request before posted an answer to
Follows(prev, cur) ==
    IF cur = prev THEN "same"
    ELSE IF /\ prev.op = "swipe" /\ cur.op = "swipe"
            /\ prev.user = cur.user /\ prev.dog_id = cur.dog_id
            /\ prev.action = "dislike" /\ cur.action = "like"
    THEN "flip"
    ELSE IF /\ prev.op = "songgate" /\ cur.op = "songgate"
            /\ prev.user = cur.user /\ prev.dog_id = cur.dog_id
            /\ prev.key = cur.key
            /\ prev.method = "POST" /\ cur.method = "POST"
    THEN "retry"
    ELSE "other"

\* one more request is taken up
Handle(r) ==
    /\ steps < MaxSteps
    /\ steps' = steps + 1
    /\ req' = r
    /\ follows' = Follows(req, r)

\* ---------------------------------------------------------------- register
\* POST /register
Register(username, password, confirmation, dog_name, favorite_artist) ==
    LET name       == Strip(username)
        dname      == Strip(dog_name)
        fav        == Strip(favorite_artist)
        user_id    == Len(users) + 1
        fail(msg)  == /\ resp' = RenderFlash("register.html", msg)
                      /\ UNCHANGED <<users, dogs>>
    IN
    /\ Handle(Request("register", NoUser, NoDog, "", NoKey, "POST", NoText))
    /\ UNCHANGED <<likes, now, swiped, gated, inflight>>
    /\ IF name = NoText \/ password = "" \/ confirmation = ""
       THEN fail("Please fill all user fields.")
       ELSE IF password # confirmation
       THEN fail("Passwords do not match.")
       ELSE IF dname = NoText
       THEN fail("Dog name is required.")
       ELSE IF fav = NoText
       THEN fail("Please pick a favourite artist.")
       ELSE IF \E i \in UserIds : users[i].username = name
       THEN fail("Username already exists.")   \* sqlite3.IntegrityError, rollback
       ELSE /\ Len(users) < MaxUsers
            /\ users' = Append(users, [username |-> name])
            /\ dogs' = Append(dogs, [user_id |-> user_id,
                                     favorite_artist |-> fav,
                                     created_at |-> now])
            /\ resp' = RedirectFlash("discover", "Welcome! Profile created.")

\* ---------------------------------------------------------------- discover
\* GET /discover
Discover(u) ==
    /\ Handle(Request("discover", u, NoDog, "", NoKey, "GET", NoText))
    /\ UNCHANGED <<users, dogs, likes, now, swiped, gated, inflight>>
    /\ IF u = NoUser
       THEN resp' = ToLogin
       ELSE IF NextCards(u) = {}
       THEN resp' = Response("render", "discover.html", NoDog, NoKey, "")
       ELSE \E d \in NextCards(u) :
               resp' = Response("render", "discover.html", d, NoKey, "")

\* ------------------------------------------------------------------- swipe
\* finalize_like_then_redirect without db.commit(): the INSERT is lost when
\* the connection is closed
FinalizeLikes_NoCommit(u, target_dog_id) == likes

\* finalize_like_then_redirect(target_dog_id, matched=True): the likes table
\* after it
FinalizeLikes(u, target_dog_id) == Upsert(likes, u, target_dog_id, 1, now)

\* the swipes handled, after a swipe form of user u on dog_id: a form that
\* passes login_required and the form validation is a like or a dislike swipe,
\* and a like that finds the owner's like of the sender's dog is routed
Swiped(u, dog_id, action) ==
    IF u = NoUser \/ dog_id = NoDog \/ action \notin {"like", "dislike"}
    THEN swiped
    ELSE swiped \cup
         {[user |-> u, dog_id |-> dog_id,
           routed |-> /\ action = "like"
                      /\ my_dog_id(u) # NoDog
                      /\ dog_id \in DogIds
                      /\ MutualLike(dogs[dog_id].user_id, my_dog_id(u))]}

\* POST /swipe
Swipe(u, dog_id, action) ==
    /\ Handle(Request("swipe", u, dog_id, action, NoKey, "POST", NoText))
    /\ UNCHANGED <<users, dogs, now, gated, inflight>>
    /\ swiped' = Swiped(u, dog_id, action)
    /\ IF u = NoUser
       THEN /\ resp' = ToLogin
            /\ UNCHANGED likes
       ELSE IF dog_id = NoDog \/ action \notin {"like", "dislike"}
       THEN /\ resp' = RedirectFlash("discover", "Invalid swipe.")
            /\ UNCHANGED likes
       ELSE IF action = "dislike"
       THEN /\ likes' = Upsert(likes, u, dog_id, -1, now)
            /\ resp' = Redirect("discover")
       ELSE IF my_dog_id(u) = NoDog
       THEN /\ resp' = RedirectFlash("register", "Set up your dog profile first.")
            /\ UNCHANGED likes
       ELSE IF dog_id \notin DogIds
       THEN /\ resp' = Redirect("discover")
            /\ UNCHANGED likes
       ELSE IF MutualLike(dogs[dog_id].user_id, my_dog_id(u))
       THEN /\ resp' = Response("redirect", "songgate", dog_id, NoKey, "")
            /\ UNCHANGED likes
       ELSE /\ likes' = Upsert(likes, u, dog_id, 1, now)
            /\ resp' = Redirect("discover")

\* ---------------------------------------------------------------- songgate
\* GET or POST /songgate/<dog_id>?key=<key>
Songgate(u, dog_id, key, method, answer) ==
    LET choices == Choices(Strip(dogs[dog_id].favorite_artist))
        finalize == /\ likes' = FinalizeLikes(u, dog_id)
                    /\ resp' = RedirectFlash("matches", "It's a match!")
    IN
    /\ Handle(Request("songgate", u, dog_id, "", key, method, answer))
    /\ UNCHANGED <<users, dogs, now, swiped, inflight>>
    /\ IF u = NoUser
       THEN /\ resp' = ToLogin
            /\ UNCHANGED likes
       ELSE IF dog_id \notin DogIds
       THEN /\ resp' = RedirectFlash("discover", "That profile is gone.")
            /\ UNCHANGED likes
       ELSE IF choices = <<>>
       THEN finalize
       ELSE IF key = NoKey
       THEN /\ \E i \in 1..Len(choices) :      \* random.choice(choices)
                  resp' = Response("redirect", "songgate", dog_id, choices[i].key, "")
            /\ UNCHANGED likes
       ELSE IF key \notin KeysOf(choices)
       THEN /\ resp' = RedirectFlash("discover", "Audio not found.")
            /\ UNCHANGED likes
       ELSE IF method = "POST" /\ Accepts(SnippetOf(choices, key), answer)
       THEN finalize
       ELSE /\ resp' = Response("render", "songgate.html", dog_id, key,
                                IF method = "POST" THEN "Try again!" ELSE "")
            /\ UNCHANGED likes
    /\ gated' = IF resp'.page = "matches" THEN gated \cup {<<u, dog_id>>} ELSE gated

\* ----------------------------------------------------------------- matches
\* GET /matches
Matches(u) ==
    /\ Handle(Request("matches", u, NoDog, "", NoKey, "GET", NoText))
    /\ UNCHANGED <<users, dogs, likes, now, swiped, gated, inflight>>
    /\ IF u = NoUser
       THEN resp' = ToLogin
       ELSE IF my_dog_id(u) = NoDog
       THEN resp' = RedirectFlash("register", "Create your profile first.")
       ELSE resp' = [Response("render", "matches.html", NoDog, NoKey, "")
                        EXCEPT !.pending = PendingMatches(u, my_dog_id(u)),
                               !.confirmed = ConfirmedMatches(u, my_dog_id(u))]

\* ------------------------------------------------------------------- next
Next ==
    \/ Tick
    \/ \E f \in RegisterInputs : Register(f[1], f[2], f[3], f[4], f[5])
    \/ \E u \in UserIds : Discover(u)
    \/ \E u \in UserIds, sw \in SwipeInputs : Swipe(u, sw[1], sw[2])
    \/ \E u \in UserIds, dog_id \in DogIdInputs, g \in GateInputs :
          Songgate(u, dog_id, g[1], g[2], g[3])
    \/ \E u \in UserIds : Matches(u)
    \* the same requests without a session
    \/ Discover(NoUser)
    \/ \E action \in {"like", "dislike"} : Swipe(NoUser, 1, action)
    \/ Songgate(NoUser, 1, NoKey, "GET", NoText)
    \/ Matches(NoUser)

Spec == Init /\ [][Next]_vars

\* ------------------------------------------------- interleaved like swipes
\* Each request has its own sqlite connection (get_db on flask.g) and the
\* SELECTs of swipe run outside a transaction, so the statements of two
\* requests served at the same time interleave. A like swipe is two steps
\* here: its statements up to the SELECT of the owner's like, and its INSERT.

\* POST /swipe with action like, up to the SELECT of the owner's like; a like
\* that found none has its INSERT still to run
SwipeLikeRead(u, dog_id) ==
    /\ Handle(Request("swipe", u, dog_id, "like", NoKey, "POST", NoText))
    /\ UNCHANGED <<users, dogs, likes, now, gated>>
    /\ swiped' = Swiped(u, dog_id, "like")
    /\ IF my_dog_id(u) = NoDog
       THEN /\ resp' = RedirectFlash("register", "Set up your dog profile first.")
            /\ UNCHANGED inflight
       ELSE IF dog_id \notin DogIds
       THEN /\ resp' = Redirect("discover")
            /\ UNCHANGED inflight
       ELSE IF MutualLike(dogs[dog_id].user_id, my_dog_id(u))
       THEN /\ resp' = Response("redirect", "songgate", dog_id, NoKey, "")
            /\ UNCHANGED inflight
       ELSE /\ resp' = Redirect("none")        \* not answered yet
            /\ inflight' = inflight \cup {[user |-> u, dog_id |-> dog_id]}

\* the INSERT, commit and redirect of a like swipe that found no like of the
\* owner when it looked
SwipeLikeWrite(p) ==
    /\ p \in inflight
    /\ inflight' = inflight \ {p}
    /\ likes' = Upsert(likes, p.user, p.dog_id, 1, now)
    /\ req' = Request("swipe", p.user, p.dog_id, "like", NoKey, "POST", NoText)
    /\ resp' = Redirect("discover")
    /\ follows' = "other"
    /\ UNCHANGED <<users, dogs, now, steps, swiped, gated>>

NextConcurrent ==
    \/ \E f \in RegisterInputs : Register(f[1], f[2], f[3], f[4], f[5])
    \/ \E u \in UserIds, dog_id \in DogIdInputs : SwipeLikeRead(u, dog_id)
    \/ \E p \in inflight : SwipeLikeWrite(p)
    \/ \E u \in UserIds, dog_id \in DogIdInputs : Swipe(u, dog_id, "dislike")
    \/ \E u \in UserIds, dog_id \in DogIdInputs, g \in GateInputs :
          Songgate(u, dog_id, g[1], g[2], g[3])

SpecConcurrent == Init /\ [][NextConcurrent]_vars

\* ------------------------------------------------- vocabulary of the claims
\* Preference(u -> d, v): a likes row of user u on dog d with value v
HoldsIn(L, u, d, v) ==
    \E r \in L : r.user_id = u /\ r.target_dog_id = d /\ r.value = v

Holds(u, d, v) == HoldsIn(likes, u, d, v)

\* the rows of user u on dog d in the likes table L
RowsIn(L, u, d) == {r \in L : r.user_id = u /\ r.target_dog_id = d}

\* the profiles (dogs) user u owns
ProfilesOf(u) == {d \in DogIds : dogs[d].user_id = u}

\* a confirmed match between users a and b: each holds +1 on the other's profile
ConfirmedPair(a, b) ==
    /\ a # b
    /\ \E da \in ProfilesOf(a), db \in ProfilesOf(b) :
          Holds(a, db, 1) /\ Holds(b, da, 1)

\* the challenges of the artist of dog d
ChallengesOf(d) == Choices(dogs[d].favorite_artist)

\* the trimmed, lowercased answer is one of the lowercased accepted answers
\* of the challenge of dog d's artist that has this key
NormalizedMatch(d, key, answer) ==
    \E i \in 1..Len(ChallengesOf(d)) :
        /\ ChallengesOf(d)[i].key = key
        /\ \E j \in 1..Len(ChallengesOf(d)[i].answers) :
              Lower(Strip(answer)) = Lower(ChallengesOf(d)[i].answers[j])

\* the likes table without its timestamps
Untimed(L) ==
    {[user_id |-> r.user_id, target_dog_id |-> r.target_dog_id, value |-> r.value] : r \in L}

\* this step handles a request
IsRequest == steps' = steps + 1

\* the response is the "match" outcome of finalize_like_then_redirect
MatchSurfaced(r) == r.kind = "redirect" /\ r.page = "matches" /\ r.flash = "It's a match!"

\* the response routes to the gate of dog d
RoutedToGate(r, d) == r.kind = "redirect" /\ r.page = "songgate" /\ r.dog_id = d

\* ------------------------------------------------------------------ claims
\* C1: a pair of users never becomes a confirmed match through a swipe (or
\* any request other than a gate request): it becomes confirmed only when
\* the gate finalizes the like of the second liker, the other side already
\* holding +1, and when the target's artist has a challenge that request
\* carries an answer the challenge with the request's key accepts.
C1_ConfirmedOnlyThroughGate ==
    [][\A a \in UserIds', b \in UserIds' :
          (~ConfirmedPair(a, b) /\ ConfirmedPair(a, b)') =>
             \E actor \in {a, b}, other \in {a, b} :
                /\ actor # other
                /\ IsRequest
                /\ req'.op = "songgate"
                /\ req'.user = actor
                /\ req'.dog_id \in ProfilesOf(other)
                /\ MatchSurfaced(resp')
                /\ ~Holds(actor, req'.dog_id, 1)
                /\ \E mine \in ProfilesOf(actor) : Holds(other, mine, 1)
                /\ ChallengesOf(req'.dog_id) # <<>> =>
                      /\ req'.method = "POST"
                      /\ NormalizedMatch(req'.dog_id, req'.key, req'.answer)
      ]_vars

\* C1 witness: a pair is confirmed right after a gate answer on a target
\* whose artist has a challenge
C1_Witness ==
    /\ req.op = "songgate" /\ req.method = "POST"
    /\ req.user \in UserIds /\ req.dog_id \in DogIds
    /\ ChallengesOf(req.dog_id) # <<>>
    /\ MatchSurfaced(resp)
    /\ ConfirmedPair(req.user, dogs[req.dog_id].user_id)

\* C2: a like swipe of a user who owns a profile on a profile that exists
\* writes nothing and routes to the gate when the target's owner holds +1 on
\* the actor's profile; otherwise it upserts the actor's +1 row, touches no
\* other row and returns to the feed (never to the gate).
C2_LikeSwipeContract ==
    [][(/\ IsRequest
        /\ req'.op = "swipe" /\ req'.action = "like"
        /\ req'.user \in UserIds /\ ProfilesOf(req'.user) # {}
        /\ req'.dog_id \in DogIds) =>
           LET u == req'.user
               d == req'.dog_id
           IN  IF \E mine \in ProfilesOf(u) : Holds(dogs[d].user_id, mine, 1)
               THEN /\ likes' = likes
                    /\ RoutedToGate(resp', d)
               ELSE /\ Cardinality(RowsIn(likes', u, d)) = 1
                    /\ HoldsIn(likes', u, d, 1)
                    /\ likes' \ RowsIn(likes', u, d) = likes \ RowsIn(likes, u, d)
                    /\ resp' = Redirect("discover")
      ]_vars

\* C2 witness: a like swipe was routed to the gate
C2_Witness ==
    /\ req.op = "swipe" /\ req.action = "like"
    /\ req.dog_id \in DogIds
    /\ RoutedToGate(resp, req.dog_id)
    /\ ~Holds(req.user, req.dog_id, 1)

\* C3 (as claimed): whenever the gate has finalized a like and surfaced the
\* match outcome, the actor and the target's owner are a confirmed match.
\* It is stated for a target owned by another user, the case the claim
\* is about.
C3_FinalizeMeansMatch ==
    (/\ req.op = "songgate"
     /\ req.user \in UserIds /\ req.dog_id \in DogIds
     /\ dogs[req.dog_id].user_id # req.user
     /\ MatchSurfaced(resp))
    => ConfirmedPair(req.user, dogs[req.dog_id].user_id)

\* the two lists of matches() for user u
PendingOf(u)   == PendingMatches(u, my_dog_id(u))
ConfirmedOf(u) == ConfirmedMatches(u, my_dog_id(u))

\* C4: for all users a and b, b's profile is in a's confirmed list if and
\* only if a's profile is in b's confirmed list.
C4_ConfirmedSymmetric ==
    \A a \in UserIds, b \in UserIds :
        \A da \in ProfilesOf(a), db \in ProfilesOf(b) :
            (db \in ConfirmedOf(a)) <=> (da \in ConfirmedOf(b))

\* C4 witness: the matches page of a user lists a confirmed match
C4_Witness ==
    /\ req.op = "matches" /\ req.user \in UserIds
    /\ resp.confirmed # {}
    /\ resp.confirmed = ConfirmedOf(req.user)

\* C5: a gate answer that the challenge with the request's key (a key of
\* the target's artist) does not accept leaves the likes table as it was and
\* presents the challenge with the same key again.
C5_WrongAnswerRetries ==
    [][(/\ IsRequest
        /\ req'.op = "songgate" /\ req'.method = "POST"
        /\ req'.user \in UserIds /\ req'.dog_id \in DogIds
        /\ req'.key \in KeysOf(ChallengesOf(req'.dog_id))
        /\ ~NormalizedMatch(req'.dog_id, req'.key, req'.answer)) =>
           /\ likes' = likes
           /\ resp'.kind = "render" /\ resp'.page = "songgate.html"
           /\ resp'.dog_id = req'.dog_id
           /\ resp'.key = req'.key
      ]_vars

\* C5 witness: the same wrong answer was submitted twice in a row
C5_Witness ==
    /\ follows = "same"
    /\ req.op = "songgate" /\ req.method = "POST"
    /\ req.user \in UserIds /\ req.dog_id \in DogIds
    /\ req.key \in KeysOf(ChallengesOf(req.dog_id))
    /\ ~NormalizedMatch(req.dog_id, req.key, req.answer)
    /\ resp.page = "songgate.html" /\ resp.key = req.key
    /\ ~Holds(req.user, req.dog_id, 1)

\* C6 (as claimed): a profile p that user u holds -1 on is in neither list of
\* u, and u's profile is in neither list of p's owner.
C6_DislikeInNoList ==
    \A u \in UserIds, p \in DogIds :
        Holds(u, p, -1) =>
            /\ p \notin PendingOf(u)
            /\ p \notin ConfirmedOf(u)
            /\ \A mine \in ProfilesOf(u) :
                  mine \notin PendingOf(dogs[p].user_id) \cup ConfirmedOf(dogs[p].user_id)

\* C6 (amended): a profile p that user u holds -1 on is not in u's confirmed
\* list, and u's profile is in neither list of p's owner; p is in u's pending
\* list exactly when p's owner is another user who holds +1 on u's profile.
C6_DislikeStaysPending ==
    \A u \in UserIds, p \in DogIds :
        Holds(u, p, -1) =>
            /\ p \notin ConfirmedOf(u)
            /\ \A mine \in ProfilesOf(u) :
                  mine \notin PendingOf(dogs[p].user_id) \cup ConfirmedOf(dogs[p].user_id)
            /\ p \in PendingOf(u) <=>
                  /\ dogs[p].user_id # u
                  /\ \E mine \in ProfilesOf(u) : Holds(dogs[p].user_id, mine, 1)

\* C6 witness: a user holds -1 on a profile whose owner holds +1 on theirs
C6_Witness ==
    \E u \in UserIds, p \in DogIds :
        /\ Holds(u, p, -1)
        /\ dogs[p].user_id # u
        /\ \E mine \in ProfilesOf(u) : Holds(dogs[p].user_id, mine, 1)
        /\ p \in PendingOf(u)

\* C7: handling again the request handled last (the same swipe, or the same
\* gate request, accepted answers included) leaves the likes table with the
\* same rows and values, timestamps aside.
C7_ResubmitIdempotent ==
    [][(/\ IsRequest
        /\ req' = req
        /\ req.op \in {"swipe", "songgate"}) =>
           /\ Untimed(likes') = Untimed(likes)
           /\ Cardinality(likes') = Cardinality(likes)
      ]_vars

\* C7 witness: the same like swipe was handled twice in a row, at two times
C7_Witness ==
    /\ follows = "same"
    /\ req.op = "swipe" /\ req.action = "like"
    /\ \E r \in likes : /\ r.user_id = req.user /\ r.target_dog_id = req.dog_id
                        /\ r.value = 1 /\ r.created_at > 0

\* C8: for every user u the pending and confirmed lists are disjoint and
\* together hold exactly the profiles of the other users who hold +1 on u's
\* profile; such a profile is in confirmed when u holds +1 on it and in
\* pending otherwise.
C8_PendingConfirmedPartition ==
    \A u \in UserIds :
        LET incoming == {d \in DogIds :
                            /\ dogs[d].user_id # u
                            /\ \E mine \in ProfilesOf(u) : Holds(dogs[d].user_id, mine, 1)}
        IN  /\ PendingOf(u) \cap ConfirmedOf(u) = {}
            /\ PendingOf(u) \cup ConfirmedOf(u) = incoming
            /\ \A d \in incoming : (d \in ConfirmedOf(u)) <=> Holds(u, d, 1)

\* C8 witness: the matches page of a user lists a pending profile
C8_Witness ==
    /\ req.op = "matches" /\ req.user \in UserIds
    /\ resp.pending # {}
    /\ resp.pending = PendingOf(req.user)

\* a like swipe of user u on dog d right after u's dislike swipe on d
DislikeThenLike(u, d) ==
    /\ IsRequest
    /\ req.op = "swipe" /\ req.action = "dislike" /\ req.user = u /\ req.dog_id = d
    /\ req'.op = "swipe" /\ req'.action = "like" /\ req'.user = u /\ req'.dog_id = d

\* C9 (as claimed): after user c swipes dislike and then like on profile d,
\* exactly one row (c, d) exists and its value is +1.
C9_DislikeThenLikeIsLike ==
    [][\A c \in UserIds, d \in DogIds :
          DislikeThenLike(c, d) =>
             /\ Cardinality(RowsIn(likes', c, d)) = 1
             /\ HoldsIn(likes', c, d, 1)
      ]_vars

\* C9 (amended): at most one row per (user, dog) exists in every state; a
\* dislike swipe leaves exactly one row (c, d), of value -1; a like swipe
\* right after it leaves exactly one row: for a user c who owns a profile,
\* of value +1 when d's owner does not hold +1 on c's profile, and the -1
\* row as it was, with the swipe routed to the gate, when the owner does.
C9_OneRowPerPair ==
    /\ [](\A r1 \in likes, r2 \in likes :
             (r1.user_id = r2.user_id /\ r1.target_dog_id = r2.target_dog_id) => r1 = r2)
    /\ [][(/\ IsRequest
           /\ req'.op = "swipe" /\ req'.action = "dislike"
           /\ req'.user \in UserIds /\ req'.dog_id # NoDog) =>
              /\ Cardinality(RowsIn(likes', req'.user, req'.dog_id)) = 1
              /\ HoldsIn(likes', req'.user, req'.dog_id, -1)
         ]_vars
    /\ [][\A c \in UserIds, d \in DogIds :
             DislikeThenLike(c, d) =>
                /\ Cardinality(RowsIn(likes', c, d)) = 1
                /\ ProfilesOf(c) # {} =>
                   IF \E mine \in ProfilesOf(c) : Holds(dogs[d].user_id, mine, 1)
                      THEN /\ RowsIn(likes', c, d) = RowsIn(likes, c, d)
                           /\ HoldsIn(likes', c, d, -1)
                           /\ RoutedToGate(resp', d)
                      ELSE HoldsIn(likes', c, d, 1)
         ]_vars

\* C9 witness: a like swipe right after a dislike swipe was routed to the
\* gate and the row is still -1
C9_Witness ==
    /\ follows = "flip"
    /\ req.dog_id \in DogIds
    /\ RoutedToGate(resp, req.dog_id)
    /\ Holds(req.user, req.dog_id, -1)

\* the profiles of other users that viewer has no row for
Unseen(viewer) ==
    {d \in DogIds : dogs[d].user_id # viewer /\ RowsIn(likes, viewer, d) = {}}

\* C10: the feed shows a viewer a profile of another user that the viewer
\* has no row for (of either sign) and than which no such profile was
\* created later, and shows none exactly when there is no such profile; rows
\* are never removed, so a disliked profile is not shown again.
C10_NextCard ==
    /\ []((req.op = "discover" /\ req.user \in UserIds) =>
             IF Unseen(req.user) = {}
             THEN resp.dog_id = NoDog
             ELSE /\ resp.dog_id \in Unseen(req.user)
                  /\ \A e \in Unseen(req.user) :
                        dogs[e].created_at <= dogs[resp.dog_id].created_at)
    /\ [][\A r \in likes : RowsIn(likes', r.user_id, r.target_dog_id) # {}]_vars

\* C10 witness: the feed showed the later created of two unseen profiles
C10_Witness ==
    /\ req.op = "discover" /\ req.user \in UserIds
    /\ resp.dog_id \in Unseen(req.user)
    /\ \E e \in Unseen(req.user) : dogs[e].created_at < dogs[resp.dog_id].created_at

\* ------------------------------------------------------- catalog, as data
\* the catalog entry of the artist of dog d (no entry: no challenges)
CatalogOf(d) ==
    IF Strip(dogs[d].favorite_artist) \in DOMAIN ARTIST_SONGS
    THEN ARTIST_SONGS[Strip(dogs[d].favorite_artist)]
    ELSE <<>>

\* the keys of the catalog entry of the artist of dog d
CatalogKeys(d) == {CatalogOf(d)[i].key : i \in 1..Len(CatalogOf(d))}

\* the swipe history holds a like swipe of user u on dog d that was routed
\* to the gate
WasRouted(u, d) == [user |-> u, dog_id |-> d, routed |-> TRUE] \in swiped

\* C11: a gate request of a signed-in user on an existing target whose
\* favourite artist has no challenges (NULL, empty or not in the catalog)
\* never shows a challenge and never asks for a key: whatever key, method
\* and answer it carries it finalizes the like at once (the actor's +1 row
\* is there, the match outcome is returned), so that when the target's owner
\* holds +1 on the actor's profile the two are a confirmed match after it.
C11_NoChallengeFinalizesAtOnce ==
    [][\A a \in UserIds, d \in DogIds :
          (/\ IsRequest
           /\ req'.op = "songgate" /\ req'.user = a /\ req'.dog_id = d
           /\ CatalogOf(d) = <<>>)
          => /\ MatchSurfaced(resp')
             /\ HoldsIn(likes', a, d, 1)
             /\ \A mine \in ProfilesOf(a) :
                   (dogs[d].user_id # a /\ Holds(dogs[d].user_id, mine, 1))
                   => ConfirmedPair(a, dogs[d].user_id)'
      ]_vars

\* C11 witness: a like swipe was routed to the gate of a dog whose artist is
\* NULL, and the gate request that followed, without key or answer, made
\* the two users a confirmed match
C11_Witness ==
    /\ req.op = "songgate" /\ req.method = "GET" /\ req.key = NoKey
    /\ req.user \in UserIds /\ req.dog_id \in DogIds
    /\ dogs[req.dog_id].favorite_artist = NoText
    /\ WasRouted(req.user, req.dog_id)
    /\ MatchSurfaced(resp)
    /\ ConfirmedPair(req.user, dogs[req.dog_id].user_id)

\* C12 (as stated): a gate request of a signed-in user on an existing target,
\* with or without an answer, that carries a key which is not the key of a
\* challenge of the target's artist, is refused: the like is not finalized
\* and the likes table is unchanged.
C12_UnknownKeyRefused ==
    [][\A a \in UserIds, d \in DogIds :
          (/\ IsRequest
           /\ req'.op = "songgate" /\ req'.user = a /\ req'.dog_id = d
           /\ req'.key # NoKey /\ req'.key \notin CatalogKeys(d))
          => /\ likes' = likes
             /\ ~MatchSurfaced(resp')
      ]_vars

\* C12 (amended): the same for a target whose artist has at least one
\* challenge; the request is then answered with "Audio not found." and a
\* redirect to the feed.
C12_UnknownKeyRefusedWhenChallenged ==
    [][\A a \in UserIds, d \in DogIds :
          (/\ IsRequest
           /\ req'.op = "songgate" /\ req'.user = a /\ req'.dog_id = d
           /\ CatalogOf(d) # <<>>
           /\ req'.key # NoKey /\ req'.key \notin CatalogKeys(d))
          => /\ likes' = likes
             /\ resp' = RedirectFlash("discover", "Audio not found.")
      ]_vars

\* C12 witness: the key and the right answer of another artist's challenge,
\* posted to the gate of a dog whose artist has a challenge, were refused
C12_Witness ==
    /\ req.op = "songgate" /\ req.method = "POST"
    /\ req.user \in UserIds /\ req.dog_id \in DogIds
    /\ CatalogOf(req.dog_id) # <<>>
    /\ req.key = "miley_flowers" /\ req.key \notin CatalogKeys(req.dog_id)
    /\ req.answer = A_Flowers
    /\ resp = RedirectFlash("discover", "Audio not found.")
    /\ ~Holds(req.user, req.dog_id, 1)

\* C13: a request that is rejected leaves the three tables as they were: a
\* swipe form without dog_id or with an action that is neither like nor
\* dislike, a like swipe of a user who owns no dog, a gate request for a dog
\* that does not exist, and any swipe, gate or matches request without a
\* signed-in user; none of them returns the match outcome.
C13_RejectedRequestsWriteNothing ==
    [][(/\ IsRequest
        /\ \/ /\ req'.op \in {"swipe", "songgate", "matches"}
              /\ req'.user = NoUser
           \/ /\ req'.op = "swipe" /\ req'.user \in UserIds
              /\ \/ req'.dog_id = NoDog
                 \/ req'.action \notin {"like", "dislike"}
                 \/ req'.action = "like" /\ ProfilesOf(req'.user) = {}
           \/ /\ req'.op = "songgate" /\ req'.user \in UserIds
              /\ req'.dog_id \notin DogIds)
       => /\ likes' = likes /\ users' = users /\ dogs' = dogs
          /\ ~MatchSurfaced(resp')
      ]_vars

\* C13 witness: a user without a dog swiped like on a dog that exists and was
\* sent to the profile form, the likes table holding no row of that user
C13_Witness ==
    /\ req.op = "swipe" /\ req.action = "like"
    /\ req.user \in UserIds /\ req.dog_id \in DogIds
    /\ ProfilesOf(req.user) = {}
    /\ resp = RedirectFlash("register", "Set up your dog profile first.")
    /\ \A r \in likes : r.user_id # req.user

\* C14: every gate request that runs (signed-in user, existing target), and
\* so every like the gate finalizes, comes after a like swipe of that user on
\* that target which was routed to the gate, the target's owner still
\* holding +1 on a profile of the user.
C14_GateOnlyAfterRouting ==
    (/\ req.op = "songgate"
     /\ req.user \in UserIds /\ req.dog_id \in DogIds)
    => /\ WasRouted(req.user, req.dog_id)
       /\ \E mine \in ProfilesOf(req.user) :
             Holds(dogs[req.dog_id].user_id, mine, 1)

\* C15: when the statements of like swipes of two users interleave, two
\* users are a confirmed match only if the gate finalized the like of at
\* least one of them on the other's profile: two like swipes that both looked
\* before either wrote never make a confirmed match with neither user gated.
C15_ConfirmedNeedsAGate ==
    \A a \in UserIds, b \in UserIds :
        ConfirmedPair(a, b) =>
            \E da \in ProfilesOf(a), db \in ProfilesOf(b) :
                <<a, db>> \in gated \/ <<b, da>> \in gated

\* C16: the gate never locks out. In whatever state the request arrives, so
\* after any number of wrong answers, a POST of a signed-in user to the gate
\* of an existing target, with a key of a challenge of the target's artist
\* and an answer that trimmed and lowercased equals a lowercased accepted
\* answer of that challenge, finalizes the like: the actor's +1 row on the
\* target is written and the match outcome returned.
C16_RightAnswerAlwaysPasses ==
    [][\A a \in UserIds, d \in DogIds :
          (/\ IsRequest
           /\ req'.op = "songgate" /\ req'.user = a /\ req'.dog_id = d
           /\ req'.method = "POST"
           /\ req'.key \in CatalogKeys(d)
           /\ NormalizedMatch(d, req'.key, req'.answer))
          => /\ MatchSurfaced(resp')
             /\ HoldsIn(likes', a, d, 1)
             /\ <<a, d>> \in gated'
      ]_vars

\* C16 witness: an answer the challenge accepts passed the gate right after
\* another answer to the same challenge of the same target had been posted
\* by the same user (the only other answer posted with this key is wrong)
C16_Witness ==
    /\ follows = "retry"
    /\ req.op = "songgate" /\ req.method = "POST"
    /\ req.user \in UserIds /\ req.dog_id \in DogIds
    /\ req.key \in CatalogKeys(req.dog_id)
    /\ req.answer = A_GodsPlan
    /\ NormalizedMatch(req.dog_id, req.key, req.answer)
    /\ MatchSurfaced(resp)
    /\ Holds(req.user, req.dog_id, 1)

\* C17: user a holds +1 on the profile of user b and b holds no +1 on the
\* profile of a (b's like was routed to the gate, not written). When b's gate
\* request on a's profile passes, then before it a's profile is in b's
\* pending list and neither is in the other's confirmed list, and after it
\* each is in the other's confirmed list and neither in the other's pending
\* list.
C17_PassMovesPendingToConfirmed ==
    [][\A a \in UserIds, b \in UserIds :
         \A da \in ProfilesOf(a), db \in ProfilesOf(b) :
          (/\ IsRequest
           /\ req'.op = "songgate" /\ req'.user = b /\ req'.dog_id = da
           /\ MatchSurfaced(resp')
           /\ a # b
           /\ Holds(a, db, 1) /\ ~Holds(b, da, 1))
          => /\ da \in PendingOf(b)
             /\ da \notin ConfirmedOf(b) /\ db \notin ConfirmedOf(a)
             /\ da \in ConfirmedOf(b)' /\ db \in ConfirmedOf(a)'
             /\ da \notin PendingOf(b)' /\ db \notin PendingOf(a)'
      ]_vars

\* C17 witness: the like swipe of the second liker was routed to the gate of
\* a target whose artist has a challenge, the answer posted passed, and each
\* user's profile is in the other's confirmed list and in no pending list
C17_Witness ==
    /\ req.op = "songgate" /\ req.method = "POST"
    /\ req.user \in UserIds /\ req.dog_id \in DogIds
    /\ CatalogOf(req.dog_id) # <<>>
    /\ WasRouted(req.user, req.dog_id)
    /\ MatchSurfaced(resp)
    /\ dogs[req.dog_id].user_id # req.user
    /\ req.dog_id \in ConfirmedOf(req.user)
    /\ my_dog_id(req.user) \in ConfirmedOf(dogs[req.dog_id].user_id)
    /\ req.dog_id \notin PendingOf(req.user)
    /\ my_dog_id(req.user) \notin PendingOf(dogs[req.dog_id].user_id)

\* C18: the feed never shows a viewer a card the viewer has swiped on: the
\* dog that discover returns is not the dog of any like or dislike swipe the
\* viewer has sent before, whatever the outcome of that swipe was.
C18_FeedSkipsSwiped ==
    (/\ req.op = "discover" /\ req.user \in UserIds
     /\ resp.kind = "render" /\ resp.dog_id # NoDog)
    => \A e \in swiped : ~(e.user = req.user /\ e.dog_id = resp.dog_id)

\* C19 (as stated): a like that the gate finalizes on an answer submission
\* (a POST of a signed-in user on an existing target) was submitted with the
\* key of a challenge of the target's own artist and an answer that this
\* challenge accepts; the key and right answer of another artist's challenge
\* never finalize.
C19_PassOnlyWithOwnArtistAnswer ==
    [][\A a \in UserIds, d \in DogIds :
          (/\ IsRequest
           /\ req'.op = "songgate" /\ req'.user = a /\ req'.dog_id = d
           /\ req'.method = "POST"
           /\ MatchSurfaced(resp'))
          => /\ req'.key \in CatalogKeys(d)
             /\ NormalizedMatch(d, req'.key, req'.answer)
      ]_vars

\* C19 (amended): on a target whose artist has at least one challenge, every
\* like the gate finalizes comes from a POST with the key of a challenge of
\* that artist and an answer this challenge accepts.
C19_PassOnlyWithOwnArtistAnswerWhenChallenged ==
    [][\A a \in UserIds, d \in DogIds :
          (/\ IsRequest
           /\ req'.op = "songgate" /\ req'.user = a /\ req'.dog_id = d
           /\ CatalogOf(d) # <<>>
           /\ \/ MatchSurfaced(resp')
              \/ likes' # likes
              \/ gated' # gated)
          => /\ req'.method = "POST"
             /\ req'.key \in CatalogKeys(d)
             /\ NormalizedMatch(d, req'.key, req'.answer)
      ]_vars

\* C19 witness: the gate of a dog whose artist has a challenge finalized a
\* like that was not there before, on the key and an accepted answer of that
\* artist's challenge
C19_Witness ==
    /\ req.op = "songgate" /\ req.method = "POST"
    /\ req.user \in UserIds /\ req.dog_id \in DogIds
    /\ CatalogOf(req.dog_id) # <<>>
    /\ req.key \in CatalogKeys(req.dog_id)
    /\ NormalizedMatch(req.dog_id, req.key, req.answer)
    /\ MatchSurfaced(resp)
    /\ follows = "other"
    /\ <<req.user, req.dog_id>> \in gated
    /\ \E r \in likes : /\ r.user_id = req.user /\ r.target_dog_id = req.dog_id
                        /\ r.value = 1 /\ r.created_at = now

\* C20: a user's own profile is never in that user's pending list nor in
\* that user's confirmed list, neither as the queries of matches() compute
\* them in any state nor in a matches page served, also after the user has
\* swiped like on, or passed the gate of, the user's own profile.
C20_OwnProfileInNoList ==
    /\ \A u \in UserIds : \A mine \in ProfilesOf(u) :
          mine \notin PendingOf(u) /\ mine \notin ConfirmedOf(u)
    /\ (req.op = "matches" /\ req.user \in UserIds)
       => \A mine \in ProfilesOf(req.user) :
             mine \notin resp.pending /\ mine \notin resp.confirmed

\* C20 witness: a user who swiped like on the user's own dog and whose like
\* of it the gate finalized is served the matches page
C20_Witness ==
    /\ req.op = "matches" /\ req.user \in UserIds
    /\ resp.kind = "render" /\ resp.page = "matches.html"
    /\ \E mine \in ProfilesOf(req.user) :
          /\ Holds(req.user, mine, 1)
          /\ <<req.user, mine>> \in gated
          /\ \E e \in swiped : e.user = req.user /\ e.dog_id = mine

====
